---- MODULE Spec2Model ----
(***************************************************************************)
(* A model of tauri-json-storage: the per-key JSON document store of       *)
(* src/src/storage.ts and the data-path / file-name helpers of             *)
(* src/src/utils.ts, over an abstract file system (the @tauri-apps/api fs  *)
(* and path collaborators).                                                *)
(*                                                                         *)
(* Strings of the program are sequences of one-character strings, so that  *)
(* basename, trim, encodeURIComponent and the replaces are computed.       *)
(* A path is a sequence of components, each component a string; an         *)
(* absolute path starts with the root component "/".                       *)
(* An optional value (undefined or a value) is <<>> or <<value>>.          *)
(***************************************************************************)
EXTENDS Integers, Sequences, FiniteSets, TLC

VARIABLES
    currentDataPath,  \* utils.ts: let currentDataPath (optional path)
    fs,               \* the file system: existing path -> node
    last,             \* the last completed call of the sequential caller and its outcome
    written,          \* history of the sequential caller: per directory and key, the value of the
                      \* last set that completed, unless a remove of the key or a clear of the
                      \* directory followed
    nops,             \* number of calls the sequential caller has made
    tasks,            \* the setDataPath calls in flight of the asynchronous callers
    removedDocs,      \* history of the sequential caller: the documents a set stored and a remove
                      \* then deleted, with no set of the document completed since
    sets              \* the set calls in flight of the asynchronous callers

vars == <<currentDataPath, fs, last, written, nops, tasks, removedDocs, sets>>

----------------------------------------------------------------------------
(* Bounds of the model *)

\* calls of the sequential caller in one behaviour
MaxOps == 3

\* concurrently running tasks of the asynchronous specification
NumTasks == 2

\* calls each task makes in the asynchronous specification
MaxCalls == 2

\* set calls each task makes in the specification of the concurrent sets
MaxSetCalls == 1

\* calls of the sequential caller in the specification of the unusual inputs
MaxEdgeOps == 2

----------------------------------------------------------------------------
(* Strings and optional values *)

NONE == <<>>

Some(x) == <<x>>

IsNil(o) == o = NONE

\* JavaScript truthiness of an optional string or path: undefined and "" are falsy
Truthy(o) == o # NONE /\ o[1] # <<>>

EndsWith(s, suf) ==
    /\ Len(s) >= Len(suf)
    /\ SubSeq(s, Len(s) - Len(suf) + 1, Len(s)) = suf

RECURSIVE Flatten(_)
Flatten(ss) == IF ss = <<>> THEN <<>> ELSE Head(ss) \o Flatten(Tail(ss))

DotJson == <<".", "j", "s", "o", "n">>

WhiteSpace == {" ", "\t", "\n"}

\* String.prototype.trim
RECURSIVE TrimLeft(_)
TrimLeft(s) == IF s # <<>> /\ Head(s) \in WhiteSpace THEN TrimLeft(Tail(s)) ELSE s

RECURSIVE TrimRight(_)
TrimRight(s) ==
    IF s # <<>> /\ s[Len(s)] \in WhiteSpace THEN TrimRight(SubSeq(s, 1, Len(s) - 1)) ELSE s

Trim(s) == TrimRight(TrimLeft(s))

----------------------------------------------------------------------------
(* Paths: the @tauri-apps/api path collaborator *)

Root == <<"/">>

isAbsolute(p) == p # <<>> /\ p[1] = Root

\* path.normalize: drops the "." components
RECURSIVE normalize(_)
normalize(p) ==
    IF p = <<>> THEN <<>>
    ELSE IF Head(p) = <<".">> THEN normalize(Tail(p))
    ELSE <<Head(p)>> \o normalize(Tail(p))

\* path.join(dir, name): the normalized concatenation
join(dir, name) == normalize(Append(dir, name))

\* path.dirname
dirname(p) == SubSeq(p, 1, Len(p) - 1)

\* characters after the last "/" of s
RECURSIVE LastSegment(_)
LastSegment(s) ==
    IF \E i \in 1..Len(s) : s[i] = "/"
    THEN LastSegment(Tail(s))
    ELSE s

RECURSIVE StripTrailingSlashes(_)
StripTrailingSlashes(s) ==
    IF s # <<>> /\ s[Len(s)] = "/" THEN StripTrailingSlashes(SubSeq(s, 1, Len(s) - 1)) ELSE s

\* path.basename(p, ext): the last portion of p, trailing separators ignored,
\* with the extension ext removed from its end
basename(p, ext) ==
    LET b == LastSegment(StripTrailingSlashes(p))
    IN  IF EndsWith(b, ext) /\ b # ext THEN SubSeq(b, 1, Len(b) - Len(ext)) ELSE b

\* path.extname(name): from the last "." (not the first character) to the end
extname(name) ==
    LET dots == {i \in 2..Len(name) : name[i] = "."}
    IN  IF dots = {} THEN <<>>
        ELSE LET d == CHOOSE i \in dots : \A j \in dots : j <= i
             IN  SubSeq(name, d, Len(name))

\* path.dataDir(): the platform application-data root
DataDir == <<Root, <<"a", "p", "p">>>>

----------------------------------------------------------------------------
(* utils.ts *)

NoError == "none"

\* the outcome of a call: the error thrown ("none" if it returned) and the value returned
Ok(v) == [err |-> NoError, val |-> v]

Throw(e) == [err |-> e, val |-> NONE]

ErrMissingKey == "Missing key"
ErrInvalidKey == "Invalid key"
ErrNoDataPath == "You must explicitly set a data path"
ErrNotAbsolute == "The user data path should be an absolute path"
ErrInvalidJson == "Invalid JSON data"

getDefaultDataPath == join(DataDir, <<"s", "t", "o", "r", "a", "g", "e">>)

\* A Promise is an object, and every object is truthy
PromiseTruthy(p) == TRUE

\* getDataPath as written: (new Promise(resolve => resolve(currentDataPath))) || await getDefaultDataPath().
\* The left operand of || is the promise itself; the caller's await yields what it resolves to.
getDataPath(cdp) ==
    LET promise == [resolved |-> cdp]
    IN  IF PromiseTruthy(promise) THEN promise.resolved ELSE Some(getDefaultDataPath)

\* encodeURIComponent leaves A-Z a-z 0-9 - _ . ! ~ * ' ( ) alone and percent-encodes the rest;
\* the letters listed are those the keys of the model use, and "%??" stands for the code
\* of a character the model has no key with
Unreserved == {"a", "b", "d", "j", "s", "o", "n", "x", "-", "_", ".", "!", "~", "*", "'", "(", ")"}

PercentCode(c) ==
    CASE c = " " -> <<"%", "2", "0">>
      [] c = "/" -> <<"%", "2", "F">>
      [] c = "?" -> <<"%", "3", "F">>
      [] c = "%" -> <<"%", "2", "5">>
      [] OTHER   -> <<"%", "?", "?">>

encodeURIComponent(s) ==
    Flatten([i \in 1..Len(s) |-> IF s[i] \in Unreserved THEN <<s[i]>> ELSE PercentCode(s[i])])

\* .replace(/\*/g, '-')
ReplaceStar(s) == [i \in 1..Len(s) |-> IF s[i] = "*" THEN "-" ELSE s[i]]

\* .replace(/%20/g, ' ')
RECURSIVE ReplacePct20(_)
ReplacePct20(s) ==
    IF s = <<>> THEN <<>>
    ELSE IF Len(s) >= 3 /\ SubSeq(s, 1, 3) = <<"%", "2", "0">>
         THEN <<" ">> \o ReplacePct20(SubSeq(s, 4, Len(s)))
         ELSE <<Head(s)>> \o ReplacePct20(Tail(s))

\* a file name that gets ".json" appended whatever the key ends with
escapedFileNameAppends(key) ==
    LET keyFileName == basename(key, <<>>) \o DotJson
    IN  ReplacePct20(ReplaceStar(encodeURIComponent(keyFileName)))

\* the file name of a key inside its directory (utils.ts 116-122)
escapedFileName(key) ==
    LET keyFileName == basename(key, DotJson) \o DotJson
    IN  ReplacePct20(ReplaceStar(encodeURIComponent(keyFileName)))

\* a key that is not a string (a number, an object) is the one-element sequence of this mark
NotAString == "<not a string>"

\* lodash isString
isString(key) == key = <<>> \/ key[1] # NotAString

\* a getFileName that prefers the process-wide override to the dataPath of the call
getFileNamePrefersOverride(key, dataPath, cdp) ==
    IF key = <<>> THEN Throw(ErrMissingKey)
    ELSE IF ~isString(key) \/ Len(Trim(key)) = 0 THEN Throw(ErrInvalidKey)
    ELSE LET dp == IF Truthy(getDataPath(cdp)) THEN getDataPath(cdp) ELSE dataPath
         IN  IF ~Truthy(dp) THEN Throw(ErrNoDataPath)
             ELSE Ok(join(dp[1], escapedFileName(key)))

\* getFileName(key, {dataPath}) read with the process-wide override cdp
getFileName(key, dataPath, cdp) ==
    IF key = <<>> THEN Throw(ErrMissingKey)
    ELSE IF ~isString(key) \/ Len(Trim(key)) = 0 THEN Throw(ErrInvalidKey)
    ELSE LET dp == IF Truthy(dataPath) THEN dataPath ELSE getDataPath(cdp)
         IN  IF ~Truthy(dp) THEN Throw(ErrNoDataPath)
             ELSE Ok(join(dp[1], escapedFileName(key)))

\* getLockFileName
getLockFileName(fileName) ==
    SubSeq(fileName, 1, Len(fileName) - 1)
        \o <<fileName[Len(fileName)] \o <<".", "l", "o", "c", "k">>>>

----------------------------------------------------------------------------
(* The file system: the @tauri-apps/api fs collaborator, with POSIX error codes. *)
(* A state f of it maps every existing path to a directory or a file node.       *)

DirNode == [kind |-> "dir", data |-> <<>>]

FileNode(contents) == [kind |-> "file", data |-> contents]

\* a file the process is denied access to (held by another program, or protected)
DeniedNode(contents) == [kind |-> "denied", data |-> contents]

Exists(f, p) == p \in DOMAIN f

IsDir(f, p) == Exists(f, p) /\ f[p].kind = "dir"

IsFile(f, p) == Exists(f, p) /\ f[p].kind # "dir"

IsDenied(f, p) == Exists(f, p) /\ f[p].kind = "denied"

\* the non-empty prefixes of p: p and its ancestors
Prefixes(p) == {SubSeq(p, 1, n) : n \in 1..Len(p)}

\* the names of the entries of directory p
Entries(f, p) == {q[Len(q)] : q \in {r \in DOMAIN f : Len(r) = Len(p) + 1 /\ dirname(r) = p}}

\* a file system state of outcome: the error code ("none" if it succeeded), the
\* state after the call and the value read
FsOk(f, v) == [err |-> NoError, fs |-> f, val |-> v]

FsErr(f, code) == [err |-> code, fs |-> f, val |-> NONE]

\* createDir(p, { recursive: true }): p and its missing ancestors become directories
createDir(f, path) ==
    LET p == normalize(path)
    IN  IF \E q \in Prefixes(p) : IsFile(f, q) THEN FsErr(f, "ENOTDIR")
        ELSE FsOk([q \in DOMAIN f \cup Prefixes(p) |-> IF q \in DOMAIN f THEN f[q] ELSE DirNode], NONE)

\* readTextFile(p)
readTextFile(f, path) ==
    LET p == normalize(path)
    IN  IF ~Exists(f, p) THEN FsErr(f, "ENOENT")
        ELSE IF IsDir(f, p) THEN FsErr(f, "EISDIR")
        ELSE IF IsDenied(f, p) THEN FsErr(f, "EPERM")
        ELSE FsOk(f, f[p].data)

\* a writeFile that appends to the contents the file has
writeFileAppends(f, path, contents) ==
    LET p == normalize(path)
    IN  IF IsDir(f, p) THEN FsErr(f, "EISDIR")
        ELSE IF ~IsDir(f, dirname(p)) THEN FsErr(f, "ENOENT")
        ELSE IF IsDenied(f, p) THEN FsErr(f, "EPERM")
        ELSE FsOk([q \in DOMAIN f \cup {p} |->
                      IF q # p THEN f[q]
                      ELSE IF Exists(f, p) THEN FileNode(f[p].data \o contents)
                      ELSE FileNode(contents)], NONE)

\* writeFile({ contents, path }): creates the file or replaces its contents in full
writeFile(f, path, contents) ==
    LET p == normalize(path)
    IN  IF IsDir(f, p) THEN FsErr(f, "EISDIR")
        ELSE IF ~IsDir(f, dirname(p)) THEN FsErr(f, "ENOENT")
        ELSE IF IsDenied(f, p) THEN FsErr(f, "EPERM")
        ELSE FsOk([q \in DOMAIN f \cup {p} |-> IF q = p THEN FileNode(contents) ELSE f[q]], NONE)

\* removeFile(p)
removeFile(f, path) ==
    LET p == normalize(path)
    IN  IF ~Exists(f, p) THEN FsErr(f, "ENOENT")
        ELSE IF IsDir(f, p) THEN FsErr(f, "EISDIR")
        ELSE IF IsDenied(f, p) THEN FsErr(f, "EPERM")
        ELSE FsOk([q \in DOMAIN f \ {p} |-> f[q]], NONE)

\* removeDir(p), not recursive: removes the empty directory p
removeDir(f, path) ==
    LET p == normalize(path)
    IN  IF ~Exists(f, p) THEN FsErr(f, "ENOENT")
        ELSE IF IsFile(f, p) THEN FsErr(f, "ENOTDIR")
        ELSE IF Entries(f, p) # {} THEN FsErr(f, "ENOTEMPTY")
        ELSE FsOk([q \in DOMAIN f \ {p} |-> f[q]], NONE)

\* an enumeration of a finite set, in an order the model fixes
RECURSIVE SetToSeq(_)
SetToSeq(S) ==
    IF S = {} THEN <<>>
    ELSE LET x == CHOOSE y \in S : TRUE IN <<x>> \o SetToSeq(S \ {x})

\* readDir(p): the entries of directory p, each with its name
readDir(f, path) ==
    LET p == normalize(path)
    IN  IF ~Exists(f, p) THEN FsErr(f, "ENOENT")
        ELSE IF IsFile(f, p) THEN FsErr(f, "ENOTDIR")
        ELSE FsOk(f, SetToSeq({[name |-> n] : n \in Entries(f, p)}))

----------------------------------------------------------------------------
(* JSON documents, JSON.stringify and JSON.parse.                               *)
(* A document is [t |-> type, n |-> number, v |-> members]: n is the value of a *)
(* number (0 otherwise), v the members of an object as <<name, document>>       *)
(* pairs in insertion order, or the elements of an array as <<"", document>>    *)
(* pairs. The text of a file is a sequence of JSON tokens, with "\n" and " "    *)
(* the white space of pretty printing.                                          *)

JNull == [t |-> "null", n |-> 0, v |-> <<>>]

JNum(k) == [t |-> "num", n |-> k, v |-> <<>>]

JArr(elems) == [t |-> "arr", n |-> 0, v |-> [i \in 1..Len(elems) |-> <<"", elems[i]>>]]

JObj(members) == [t |-> "obj", n |-> 0, v |-> members]

EmptyObject == JObj(<<>>)

MemberNames == {"x", "y"}

NumTokens == {"0", "1"}

Quote(name) == IF name = "x" THEN "\"x\"" ELSE "\"y\""

NumToken(n) == IF n = 0 THEN "0" ELSE "1"

Spaces(n) == [i \in 1..n |-> " "]

\* the line break and indentation stringify emits at a nesting level, nothing when gap is 0
Break(gap, level) == IF gap = 0 THEN <<>> ELSE <<"\n">> \o Spaces(gap * level)

\* JSON.stringify(json, null, gap) at a nesting level
RECURSIVE Serialize(_, _, _)
Serialize(d, gap, level) ==
    CASE d.t = "null" -> <<"null">>
      [] d.t = "num"  -> <<NumToken(d.n)>>
      [] d.t = "arr"  ->
            IF d.v = <<>> THEN <<"[", "]">>
            ELSE <<"[">>
                 \o Flatten([i \in 1..Len(d.v) |->
                        (IF i > 1 THEN <<",">> ELSE <<>>)
                        \o Break(gap, level + 1)
                        \o Serialize(d.v[i][2], gap, level + 1)])
                 \o Break(gap, level) \o <<"]">>
      [] d.t = "obj"  ->
            IF d.v = <<>> THEN <<"{", "}">>
            ELSE <<"{">>
                 \o Flatten([i \in 1..Len(d.v) |->
                        (IF i > 1 THEN <<",">> ELSE <<>>)
                        \o Break(gap, level + 1)
                        \o <<Quote(d.v[i][1]), ":">>
                        \o (IF gap = 0 THEN <<>> ELSE <<" ">>)
                        \o Serialize(d.v[i][2], gap, level + 1)])
                 \o Break(gap, level) \o <<"}">>

\* JSON.stringify(json, null, gap); undefined (NONE) has no serialization
JSONstringify(json, gap) == IF json = NONE THEN NONE ELSE Some(Serialize(json[1], gap, 0))

\* the token at position i
At(toks, i) == IF i <= Len(toks) THEN toks[i] ELSE "<eof>"

\* The parser is a pushdown machine over the tokens. Its state: the position i, the stack
\* of the containers being read (each the members read so far and, for an object, the name
\* whose value is awaited), the document just completed, and what it expects next:
\*   "value"  a value              "name"   a member name      "colon"  the ":"
\*   "first"  a value or the end of the container just opened
\*   "reduce" to place the completed document      "sep"  a "," or the end of the container
\*   "end"    the end of the text  "done" / "fail"  the parse is over
ParserStart ==
    [i |-> 1, stack |-> <<>>, cur |-> JNull, mode |-> "value"]

Frame(t) == [t |-> t, v |-> <<>>, name |-> ""]

ParserStep(toks, st) ==
    LET tok == At(toks, st.i)
        top == st.stack[Len(st.stack)]
        below == SubSeq(st.stack, 1, Len(st.stack) - 1)
        fail == [st EXCEPT !.mode = "fail"]
        names == {n \in MemberNames : Quote(n) = tok}
    IN  IF tok \in {"\n", " "} THEN [st EXCEPT !.i = st.i + 1]
        ELSE CASE st.mode \in {"value", "first"} ->
                    IF tok = "null" THEN [st EXCEPT !.i = st.i + 1, !.cur = JNull, !.mode = "reduce"]
                    ELSE IF tok \in NumTokens
                    THEN [st EXCEPT !.i = st.i + 1, !.cur = JNum(IF tok = "0" THEN 0 ELSE 1),
                                    !.mode = "reduce"]
                    ELSE IF tok = "["
                    THEN [st EXCEPT !.i = st.i + 1, !.stack = Append(st.stack, Frame("arr")),
                                    !.mode = "first"]
                    ELSE IF tok = "{"
                    THEN [st EXCEPT !.i = st.i + 1, !.stack = Append(st.stack, Frame("obj")),
                                    !.mode = "name"]
                    ELSE IF tok = "]" /\ st.mode = "first"
                    THEN [st EXCEPT !.i = st.i + 1, !.stack = below, !.cur = JArr(<<>>),
                                    !.mode = "reduce"]
                    ELSE fail
               [] st.mode = "name" ->
                    IF names # {}
                    THEN [st EXCEPT !.i = st.i + 1, !.mode = "colon",
                                    !.stack = Append(below, [top EXCEPT !.name = CHOOSE n \in names : TRUE])]
                    ELSE IF tok = "}" /\ top.v = <<>> /\ top.name = ""
                    THEN [st EXCEPT !.i = st.i + 1, !.stack = below, !.cur = EmptyObject,
                                    !.mode = "reduce"]
                    ELSE fail
               [] st.mode = "colon" ->
                    IF tok = ":" THEN [st EXCEPT !.i = st.i + 1, !.mode = "value"] ELSE fail
               [] st.mode = "reduce" ->
                    IF st.stack = <<>> THEN [st EXCEPT !.mode = "end"]
                    ELSE [st EXCEPT !.mode = "sep",
                                    !.stack = Append(below,
                                        [top EXCEPT !.v = Append(
                                            \* a repeated name replaces the earlier member
                                            SelectSeq(top.v, LAMBDA m : top.t = "arr" \/ m[1] # top.name),
                                            <<top.name, st.cur>>)])]
               [] st.mode = "sep" ->
                    IF tok = "," /\ top.t = "arr" THEN [st EXCEPT !.i = st.i + 1, !.mode = "value"]
                    ELSE IF tok = "," /\ top.t = "obj"
                    THEN [st EXCEPT !.i = st.i + 1, !.mode = "name",
                                    !.stack = Append(below, [top EXCEPT !.name = "?"])]
                    ELSE IF (tok = "]" /\ top.t = "arr") \/ (tok = "}" /\ top.t = "obj")
                    THEN [st EXCEPT !.i = st.i + 1, !.stack = below, !.mode = "reduce",
                                    !.cur = [t |-> top.t, n |-> 0, v |-> top.v]]
                    ELSE fail
               [] st.mode = "end" ->
                    IF tok = "<eof>" THEN [st EXCEPT !.mode = "done"] ELSE fail
               [] OTHER -> fail

RECURSIVE ParserRun(_, _)
ParserRun(toks, st) ==
    IF st.mode \in {"done", "fail"} THEN st ELSE ParserRun(toks, ParserStep(toks, st))

ErrSyntax == "SyntaxError"

\* JSON.parse(text): the document, or a SyntaxError
JSONparse(toks) ==
    LET st == ParserRun(toks, ParserStart)
    IN  IF st.mode = "done" THEN Ok(st.cur) ELSE Throw(ErrSyntax)

\* the documents callers store
Doc1 == JObj(<< <<"x", JNum(1)>> >>)

Doc2 == JObj(<< <<"y", JArr(<<JNull>>)>> >>)

Documents == {EmptyObject, Doc1, Doc2}

----------------------------------------------------------------------------
(* storage.ts: each operation as a function of the file system f and the     *)
(* process-wide override cdp at the time of the call. Its outcome is the     *)
(* error thrown ("none" if it returned), the file system after the call and  *)
(* the value returned.                                                       *)

Returned(f, v) == [err |-> NoError, fs |-> f, val |-> v]

Thrown(f, e) == [err |-> e, fs |-> f, val |-> NONE]

\* the number of retries of a read that fails with EPERM
MaxReadRetries == 10

\* JSON.stringify({})
EmptyObjectText == JSONstringify(Some(EmptyObject), 0)[1]

\* sleep(1000): the milliseconds between two attempts of a read
SleepTime == 1000

\* the outcome of a read: the error thrown or the text, the number of readTextFile
\* calls made and the milliseconds slept
Read(e, text, reads, slept) == [err |-> e, val |-> text, reads |-> reads, slept |-> slept]

\* readFile(fileName, times): the text of the file, "{}" when it does not exist
RECURSIVE readFile(_, _, _)
readFile(f, fileName, times) ==
    LET r == readTextFile(f, fileName)
    IN  IF r.err = NoError THEN Read(NoError, r.val, 1, 0)
        ELSE IF r.err = "ENOENT" THEN Read(NoError, EmptyObjectText, 1, 0)
        ELSE IF r.err = "EPERM" /\ times < MaxReadRetries
        THEN LET again == readFile(f, fileName, times + 1)
             IN  Read(again.err, again.val, again.reads + 1, again.slept + SleepTime)
        ELSE Read(r.err, NONE, 1, 0)

\* a get that returns {} for a file that does not parse
getIgnoresCorruptData(f, cdp, key, dataPath) ==
    LET fileName == getFileName(key, dataPath, cdp)
    IN  IF fileName.err # NoError THEN Thrown(f, fileName.err)
        ELSE LET made == createDir(f, dirname(fileName.val))
             IN  IF made.err # NoError THEN Thrown(made.fs, made.err)
                 ELSE LET text == readFile(made.fs, fileName.val, 0)
                      IN  IF text.err # NoError THEN Thrown(made.fs, text.err)
                          ELSE LET parsed == JSONparse(text.val)
                               IN  IF parsed.err # NoError THEN Returned(made.fs, EmptyObject)
                                   ELSE Returned(made.fs, parsed.val)

\* get(key, { dataPath })
get(f, cdp, key, dataPath) ==
    LET fileName == getFileName(key, dataPath, cdp)
    IN  IF fileName.err # NoError THEN Thrown(f, fileName.err)
        ELSE LET made == createDir(f, dirname(fileName.val))
             IN  IF made.err # NoError THEN Thrown(made.fs, made.err)
                 ELSE LET text == readFile(made.fs, fileName.val, 0)
                      IN  IF text.err # NoError THEN Thrown(made.fs, text.err)
                          ELSE LET parsed == JSONparse(text.val)
                               IN  IF parsed.err # NoError THEN Thrown(made.fs, parsed.err)
                                   ELSE Returned(made.fs, parsed.val)

\* a mapping from keys to documents with one more property
PutProperty(obj, key, doc) == [k \in DOMAIN obj \cup {key} |-> IF k = key THEN doc ELSE obj[k]]

\* The gets of keyList.reduce(async (prev, key) => { prev[key] = await get(key, options) ... }, {}):
\* the reduce calls the reducer for every key in turn, and each call runs get up to its first
\* await before the next is made. The gets address one directory, so each sees the files
\* of f, and the directory is created once.
Gets(f, cdp, keyList, dataPath) == [i \in 1..Len(keyList) |-> get(f, cdp, keyList[i], dataPath)]

FsAfterGets(f, results) ==
    IF \E i \in DOMAIN results : results[i].fs # f
    THEN results[CHOOSE i \in DOMAIN results : results[i].fs # f].fs
    ELSE f

\* getMany(keys, { dataPath }). The reducer is async, so what it returns, and what the next
\* iteration receives as prev, is a promise: only the first iteration assigns to the object
\* literal; a later one assigns the property to the promise of the iteration before it and
\* returns that promise. The promise returned last resolves to the object literal, or
\* rejects with the error of the last get that failed.
getMany(f, cdp, keyList, dataPath) ==
    LET results == Gets(f, cdp, keyList, dataPath)
        after == FsAfterGets(f, results)
        failed == {i \in DOMAIN results : results[i].err # NoError}
        obj == IF keyList = <<>> THEN <<>> ELSE PutProperty(<<>>, keyList[1], results[1].val)
    IN  IF failed # {}
        THEN Thrown(after, results[CHOOSE i \in failed : \A j \in failed : j <= i].err)
        ELSE Returned(after, Some(obj))

\* keys({ dataPath }): the names of the entries of the data directory.
\* The predicate handed to filter is async: it returns a promise, which is truthy.
keys(f, cdp, dataPath) ==
    LET userDataPath == IF Truthy(dataPath) THEN dataPath ELSE getDataPath(cdp)
    IN  IF userDataPath = NONE THEN Thrown(f, "EINVAL")
        ELSE LET made == createDir(f, userDataPath[1])
             IN  IF made.err # NoError THEN Thrown(made.fs, made.err)
                 ELSE LET listed == readDir(made.fs, userDataPath[1])
                      IN  IF listed.err # NoError THEN Thrown(made.fs, listed.err)
                          ELSE LET jsonFiles == SelectSeq(listed.val,
                                       LAMBDA key : PromiseTruthy([resolved |-> extname(key.name) = DotJson]))
                               IN  Returned(made.fs, [i \in 1..Len(jsonFiles) |-> jsonFiles[i].name])

\* getAll({ dataPath }): found.reduce(async (prev, key) => { prev[key] = await get(key, options) }, {}).
\* The reducer returns nothing, so the promise returned last resolves to undefined, or rejects
\* if its own get fails; with no key the reduce returns the object literal.
getAll(f, cdp, dataPath) ==
    LET found == keys(f, cdp, dataPath)
        results == Gets(found.fs, cdp, found.val, dataPath)
        after == FsAfterGets(found.fs, results)
    IN  IF found.err # NoError THEN Thrown(found.fs, found.err)
        ELSE IF found.val = <<>> THEN Returned(found.fs, Some(<<>>))
        ELSE IF results[Len(results)].err # NoError THEN Thrown(after, results[Len(results)].err)
        ELSE Returned(after, NONE)

\* set(key, json, { dataPath, validate, prettyPrinting })
set(f, cdp, key, json, dataPath, validate, prettyPrinting) ==
    LET fileName == getFileName(key, dataPath, cdp)
        data == JSONstringify(json, IF prettyPrinting THEN 2 ELSE 0)
    IN  IF fileName.err # NoError THEN Thrown(f, fileName.err)
        ELSE IF ~Truthy(data) THEN Thrown(f, ErrInvalidJson)
        ELSE LET made == createDir(f, dirname(fileName.val))
             IN  IF made.err # NoError THEN Thrown(made.fs, made.err)
                 ELSE LET wrote == writeFile(made.fs, fileName.val, data[1])
                      IN  IF wrote.err # NoError THEN Thrown(wrote.fs, wrote.err)
                          ELSE Returned(wrote.fs, NONE)

\* has(key, { dataPath })
has(f, cdp, key, dataPath) ==
    LET filename == getFileName(key, dataPath, cdp)
    IN  IF filename.err # NoError THEN Thrown(f, filename.err)
        ELSE LET text == readFile(f, filename.val, 0)
             IN  IF text.err = NoError THEN Returned(f, TRUE)
                 ELSE IF text.err = "ENOENT" THEN Returned(f, FALSE)
                 ELSE Thrown(f, text.err)

\* remove(key, { dataPath })
remove(f, cdp, key, dataPath) ==
    LET filename == getFileName(key, dataPath, cdp)
    IN  IF filename.err # NoError THEN Thrown(f, filename.err)
        ELSE LET removed == removeFile(f, filename.val)
             IN  IF removed.err # NoError THEN Thrown(removed.fs, removed.err)
                 ELSE Returned(removed.fs, NONE)

\* clear({ dataPath }): removeDir of the path <data directory>/*.json
clear(f, cdp, dataPath) ==
    LET userData == IF Truthy(dataPath) THEN dataPath ELSE getDataPath(cdp)
    IN  IF userData = NONE THEN Thrown(f, "EINVAL")
        ELSE LET jsonFiles == join(userData[1], <<"*">> \o DotJson)
                 removed == removeDir(f, jsonFiles)
             IN  IF removed.err # NoError THEN Thrown(removed.fs, removed.err)
                 ELSE Returned(removed.fs, NONE)

\* setDataPath(directory) runs in three steps, separated by its two awaits. A call in
\* flight is [pc, dir, calls, err]: pc is the await it is suspended at ("idle" when it is
\* over), dir its directory argument, err the error it threw ("none" if it returned) and
\* calls the number of calls its task has made. Each step yields the call and the
\* process-wide override after it.

\* up to the first await: isNil(directory) clears the override and returns
setDataPathCall(task, cdp, directory) ==
    IF IsNil(directory)
    THEN [task |-> [pc |-> "idle", dir |-> directory, calls |-> task.calls + 1, err |-> NoError],
          cdp  |-> NONE]
    ELSE [task |-> [pc |-> "isAbsolute", dir |-> directory, calls |-> task.calls + 1, err |-> NoError],
          cdp  |-> cdp]

\* a setDataPath that stores the directory before it checks it
setDataPathStoresFirst(task, cdp) ==
    IF ~isAbsolute(task.dir[1])
    THEN [task |-> [task EXCEPT !.pc = "idle", !.err = ErrNotAbsolute],
          cdp  |-> Some(normalize(task.dir[1]))]
    ELSE [task |-> [task EXCEPT !.pc = "normalize"], cdp |-> cdp]

\* after await path.isAbsolute(directory): throws unless the directory is absolute
setDataPathChecked(task, cdp) ==
    IF ~isAbsolute(task.dir[1])
    THEN [task |-> [task EXCEPT !.pc = "idle", !.err = ErrNotAbsolute], cdp |-> cdp]
    ELSE [task |-> [task EXCEPT !.pc = "normalize"], cdp |-> cdp]

\* after await path.normalize(directory): the assignment to currentDataPath
setDataPathNormalized(task, cdp) ==
    [task |-> [task EXCEPT !.pc = "idle", !.err = NoError], cdp |-> Some(normalize(task.dir[1]))]

IdleTask == [pc |-> "idle", dir |-> NONE, calls |-> 0, err |-> NoError]

\* setDataPath(directory) awaited with nothing else running: the error and the override after it
setDataPath(cdp, directory) ==
    LET called == setDataPathCall(IdleTask, cdp, directory)
        checked == setDataPathChecked(called.task, called.cdp)
        normalized == setDataPathNormalized(checked.task, checked.cdp)
        final == IF called.task.pc = "idle" THEN called
                 ELSE IF checked.task.pc = "idle" THEN checked
                 ELSE normalized
    IN  [err |-> final.task.err, cdp |-> final.cdp]

\* set(key, json, options) runs in four steps, separated by its awaits. A call in flight
\* is a record of its arguments, the await it is suspended at (pc, "idle" when it is
\* over), the file name and the text it computed, the error it threw ("none" if it
\* returned) and the number of set calls its task has made.
IdleSet ==
    [pc |-> "idle", key |-> <<>>, json |-> NONE, dataPath |-> NONE, validate |-> FALSE,
     pretty |-> FALSE, fileName |-> NONE, data |-> NONE, calls |-> 0, err |-> NoError]

\* up to the first await of getFileName (path.basename): the checks of the key
setCall(call, key, json, dataPath, validate, prettyPrinting) ==
    LET keyError == getFileName(key, dataPath, NONE).err
        started == [pc |-> "basename", key |-> key, json |-> json, dataPath |-> dataPath,
                    validate |-> validate, pretty |-> prettyPrinting, fileName |-> NONE,
                    data |-> NONE, calls |-> call.calls + 1, err |-> NoError]
    IN  IF keyError \in {ErrMissingKey, ErrInvalidKey}
        THEN [started EXCEPT !.pc = "idle", !.err = keyError]
        ELSE started

\* after await path.basename: the rest of getFileName, which reads the process-wide
\* override unless the call has its own dataPath, then JSON.stringify, up to await createDir
setFileNamed(call, cdp) ==
    LET fileName == getFileName(call.key, call.dataPath, cdp)
        data == JSONstringify(call.json, IF call.pretty THEN 2 ELSE 0)
    IN  IF fileName.err # NoError THEN [call EXCEPT !.pc = "idle", !.err = fileName.err]
        ELSE IF ~Truthy(data) THEN [call EXCEPT !.pc = "idle", !.err = ErrInvalidJson]
        ELSE [call EXCEPT !.pc = "createDir", !.fileName = Some(fileName.val), !.data = data]

\* await createDir(dirname(fileName), { recursive: true }): the call and the file system after it
setDirCreated(call, f) ==
    LET made == createDir(f, dirname(call.fileName[1]))
    IN  IF made.err # NoError
        THEN [call |-> [call EXCEPT !.pc = "idle", !.err = made.err], fs |-> made.fs]
        ELSE [call |-> [call EXCEPT !.pc = "writeFile"], fs |-> made.fs]

\* await writeFile({ contents: data, path: fileName }), after which set returns: the
\* read-back of the validate option is commented out
setWritten(call, f) ==
    LET wrote == writeFile(f, call.fileName[1], call.data[1])
    IN  [call |-> [call EXCEPT !.pc = "idle", !.err = wrote.err], fs |-> wrote.fs]

----------------------------------------------------------------------------
(* The inputs of the callers *)

KeyA == <<"a">>

KeyAJson == KeyA \o DotJson

KeyDirA == <<"d", "/", "a">>

KeyB == <<"b">>

KeyBlank == <<" ">>

KeyInputs == {KeyA, KeyAJson, KeyDirA, KeyB, KeyBlank}

\* keys with the wildcard and with the character it is replaced by
KeyStar == <<"a", "*">>

KeyDash == <<"a", "-">>

DirD == <<Root, <<"d">>>>

\* the same directory, not normalized
DirDDot == <<Root, <<".">>, <<"d">>>>

DirSub == <<Root, <<"d">>, <<"s">>>>

DirRel == <<<<"r">>>>

\* the directories handed to setDataPath: none, absolute ones and a relative one
SetDataPathInputs == {NONE, Some(DirDDot), Some(DirRel)}

\* the per-call dataPath option: absent or an absolute directory
DataPathOptions == {NONE, Some(DirSub)}

\* the validate and prettyPrinting options of set
WriteOptions ==
    {[validate |-> FALSE, prettyPrinting |-> FALSE],
     [validate |-> TRUE, prettyPrinting |-> TRUE]}

\* the json argument of set: a document or undefined
JsonInputs == {Some(d) : d \in Documents} \cup {NONE}

\* the longest key list handed to getMany
MaxKeys == 2

RECURSIVE SeqsUpTo(_, _)
SeqsUpTo(S, n) ==
    IF n = 0 THEN {<<>>}
    ELSE LET shorter == SeqsUpTo(S, n - 1)
         IN  shorter \cup {Append(q, x) : q \in {r \in shorter : Len(r) = n - 1}, x \in S}

KeyLists == SeqsUpTo({KeyA, KeyB}, MaxKeys)

----------------------------------------------------------------------------
(* What the documentation means by the document of a key *)

\* the key without one trailing ".json"
StripJson(key) ==
    IF EndsWith(key, DotJson) THEN SubSeq(key, 1, Len(key) - Len(DotJson)) ELSE key

\* the directory a call is meant to address: the per-call dataPath, else the process-wide
\* override, else the default data directory
IntendedDir(dataPath, cdp) ==
    IF Truthy(dataPath) THEN normalize(dataPath[1])
    ELSE IF Truthy(cdp) THEN cdp[1]
    ELSE getDefaultDataPath

DocId(key, dataPath, cdp) == <<IntendedDir(dataPath, cdp), StripJson(key)>>

ValidKey(key) == key # <<>> /\ isString(key) /\ Len(Trim(key)) > 0

----------------------------------------------------------------------------
(* The sequential caller: one call at a time, each awaited before the next *)

Tasks == 1..NumTasks

NoCall ==
    [op |-> "none", key |-> <<>>, keys |-> <<>>, dataPath |-> NONE, json |-> NONE,
     pretty |-> FALSE, validate |-> FALSE, err |-> NoError, val |-> NONE]

Init ==
    /\ currentDataPath = NONE
    /\ fs = [p \in {<<Root>>} |-> DirNode]
    /\ last = NoCall
    /\ written = <<>>
    /\ nops = 0
    /\ tasks = [i \in Tasks |-> IdleTask]
    /\ removedDocs = {}
    /\ sets = [i \in Tasks |-> IdleSet]

\* the bookkeeping of a call: it is counted and recorded with its outcome, and a remove
\* that deleted a document a set had stored is remembered until the next set of the document
Called(call, out) ==
    LET id == DocId(call.key, call.dataPath, currentDataPath)
    IN  /\ nops < MaxOps
        /\ nops' = nops + 1
        /\ last' = [call EXCEPT !.err = out.err, !.val = out.val]
        /\ removedDocs' = IF call.op = "remove" /\ out.err = NoError /\ id \in DOMAIN written
                           THEN removedDocs \cup {id}
                           ELSE IF call.op = "set" /\ out.err = NoError THEN removedDocs \ {id}
                           ELSE removedDocs
        /\ UNCHANGED <<tasks, sets>>

SetDataPath(directory) ==
    LET out == setDataPath(currentDataPath, directory)
    IN  /\ Called([NoCall EXCEPT !.op = "setDataPath", !.dataPath = directory],
                  [err |-> out.err, val |-> NONE])
        /\ currentDataPath' = out.cdp
        /\ UNCHANGED <<fs, written>>

GetDataPath ==
    /\ Called([NoCall EXCEPT !.op = "getDataPath"], Ok(getDataPath(currentDataPath)))
    /\ UNCHANGED <<currentDataPath, fs, written>>

Get(key, dataPath) ==
    LET out == get(fs, currentDataPath, key, dataPath)
    IN  /\ Called([NoCall EXCEPT !.op = "get", !.key = key, !.dataPath = dataPath], out)
        /\ fs' = out.fs
        /\ UNCHANGED <<currentDataPath, written>>

GetMany(keyList, dataPath) ==
    LET out == getMany(fs, currentDataPath, keyList, dataPath)
    IN  /\ Called([NoCall EXCEPT !.op = "getMany", !.keys = keyList, !.dataPath = dataPath], out)
        /\ fs' = out.fs
        /\ UNCHANGED <<currentDataPath, written>>

GetAll(dataPath) ==
    LET out == getAll(fs, currentDataPath, dataPath)
    IN  /\ Called([NoCall EXCEPT !.op = "getAll", !.dataPath = dataPath], out)
        /\ fs' = out.fs
        /\ UNCHANGED <<currentDataPath, written>>

Set(key, json, dataPath, validate, prettyPrinting) ==
    LET out == set(fs, currentDataPath, key, json, dataPath, validate, prettyPrinting)
        id == DocId(key, dataPath, currentDataPath)
    IN  /\ Called([NoCall EXCEPT !.op = "set", !.key = key, !.dataPath = dataPath, !.json = json,
                                 !.pretty = prettyPrinting, !.validate = validate], out)
        /\ fs' = out.fs
        /\ written' = IF out.err = NoError
                      THEN [i \in DOMAIN written \cup {id} |-> IF i = id THEN json[1] ELSE written[i]]
                      ELSE written
        /\ UNCHANGED currentDataPath

Has(key, dataPath) ==
    LET out == has(fs, currentDataPath, key, dataPath)
    IN  /\ Called([NoCall EXCEPT !.op = "has", !.key = key, !.dataPath = dataPath], out)
        /\ fs' = out.fs
        /\ UNCHANGED <<currentDataPath, written>>

Keys(dataPath) ==
    LET out == keys(fs, currentDataPath, dataPath)
    IN  /\ Called([NoCall EXCEPT !.op = "keys", !.dataPath = dataPath], out)
        /\ fs' = out.fs
        /\ UNCHANGED <<currentDataPath, written>>

Remove(key, dataPath) ==
    LET out == remove(fs, currentDataPath, key, dataPath)
        id == DocId(key, dataPath, currentDataPath)
    IN  /\ Called([NoCall EXCEPT !.op = "remove", !.key = key, !.dataPath = dataPath], out)
        /\ fs' = out.fs
        /\ written' = [i \in DOMAIN written \ {id} |-> written[i]]
        /\ UNCHANGED currentDataPath

Clear(dataPath) ==
    LET out == clear(fs, currentDataPath, dataPath)
        dir == IntendedDir(dataPath, currentDataPath)
    IN  /\ Called([NoCall EXCEPT !.op = "clear", !.dataPath = dataPath], out)
        /\ fs' = out.fs
        /\ written' = [i \in {j \in DOMAIN written : j[1] # dir} |-> written[i]]
        /\ UNCHANGED currentDataPath

Next ==
    \/ \E directory \in SetDataPathInputs : SetDataPath(directory)
    \/ GetDataPath
    \/ \E key \in KeyInputs, dataPath \in DataPathOptions : Get(key, dataPath)
    \/ \E keyList \in KeyLists, dataPath \in DataPathOptions : GetMany(keyList, dataPath)
    \/ \E dataPath \in DataPathOptions : GetAll(dataPath)
    \/ \E key \in KeyInputs, json \in JsonInputs, dataPath \in DataPathOptions, o \in WriteOptions :
            Set(key, json, dataPath, o.validate, o.prettyPrinting)
    \/ \E key \in KeyInputs, dataPath \in DataPathOptions : Has(key, dataPath)
    \/ \E dataPath \in DataPathOptions : Keys(dataPath)
    \/ \E key \in KeyInputs, dataPath \in DataPathOptions : Remove(key, dataPath)
    \/ \E dataPath \in DataPathOptions : Clear(dataPath)

Spec == Init /\ [][Next]_vars

----------------------------------------------------------------------------
(* The sequential caller with unusual inputs: keys that are empty, blank or not a  *)
(* string, a key with another extension, no document, a relative dataPath; in a    *)
(* data directory where another program may have left a file that is not JSON or   *)
(* that the process is denied access to                                            *)

KeyAD == <<"a", ".", "d">>

KeyEmpty == <<>>

KeyNumber == <<NotAString>>

EdgeKeyInputs == {KeyA, KeyAJson, KeyAD, KeyEmpty, KeyBlank, KeyNumber}

EdgeDataPathOptions == {NONE, Some(DirSub), Some(DirRel)}

EdgeJsonInputs == {Some(Doc1), NONE}

\* the start of a document, as a write cut short leaves it
CorruptText == <<"{", Quote("x"), ":">>

\* the file of key "a" in the directory DirSub
FileA == Append(DirSub, escapedFileName(KeyA))

\* the directory DirSub holding the file of key "a" as the node given
WithFileA(node) ==
    [p \in Prefixes(DirSub) \cup {FileA} |-> IF p = FileA THEN node ELSE DirNode]

\* the file systems the program starts in
EdgeFileSystems ==
    {[p \in {<<Root>>} |-> DirNode],
     WithFileA(FileNode(CorruptText)),
     WithFileA(DeniedNode(Serialize(Doc1, 0, 0)))}

InitEdge ==
    /\ currentDataPath = NONE
    /\ fs \in EdgeFileSystems
    /\ last = NoCall
    /\ written = <<>>
    /\ nops = 0
    /\ tasks = [i \in Tasks |-> IdleTask]
    /\ removedDocs = {}
    /\ sets = [i \in Tasks |-> IdleSet]

\* the calls of this caller, each counted against its bound
EdgeGet(key, dataPath) == nops < MaxEdgeOps /\ Get(key, dataPath)

EdgeSet(key, json, dataPath) == nops < MaxEdgeOps /\ Set(key, json, dataPath, FALSE, FALSE)

EdgeHas(key, dataPath) == nops < MaxEdgeOps /\ Has(key, dataPath)

EdgeRemove(key, dataPath) == nops < MaxEdgeOps /\ Remove(key, dataPath)

EdgeKeys(dataPath) == nops < MaxEdgeOps /\ Keys(dataPath)

EdgeClear(dataPath) == nops < MaxEdgeOps /\ Clear(dataPath)

NextEdge ==
    \/ \E key \in EdgeKeyInputs, dataPath \in EdgeDataPathOptions : EdgeGet(key, dataPath)
    \/ \E key \in EdgeKeyInputs, json \in EdgeJsonInputs, dataPath \in EdgeDataPathOptions :
            EdgeSet(key, json, dataPath)
    \/ \E key \in EdgeKeyInputs, dataPath \in EdgeDataPathOptions : EdgeHas(key, dataPath)
    \/ \E key \in EdgeKeyInputs, dataPath \in EdgeDataPathOptions : EdgeRemove(key, dataPath)
    \/ \E dataPath \in EdgeDataPathOptions : EdgeKeys(dataPath)
    \/ \E dataPath \in EdgeDataPathOptions : EdgeClear(dataPath)

SpecEdge == InitEdge /\ [][NextEdge]_vars

----------------------------------------------------------------------------
(* Asynchronous callers: tasks whose setDataPath calls interleave at the awaits *)

\* the directories the tasks hand to setDataPath
AsyncDirInputs == {NONE, Some(DirDDot), Some(DirSub), Some(DirRel)}

\* the effect of a step of task i on the tasks and the override
AsyncStep(i, after) ==
    /\ tasks' = [tasks EXCEPT ![i] = after.task]
    /\ currentDataPath' = after.cdp
    /\ UNCHANGED <<fs, last, written, nops, removedDocs, sets>>

AsyncSetDataPathCall(i, directory) ==
    /\ tasks[i].pc = "idle"
    /\ tasks[i].calls < MaxCalls
    /\ AsyncStep(i, setDataPathCall(tasks[i], currentDataPath, directory))

AsyncSetDataPathChecked(i) ==
    /\ tasks[i].pc = "isAbsolute"
    /\ AsyncStep(i, setDataPathChecked(tasks[i], currentDataPath))

AsyncSetDataPathNormalized(i) ==
    /\ tasks[i].pc = "normalize"
    /\ AsyncStep(i, setDataPathNormalized(tasks[i], currentDataPath))

NextAsync ==
    \/ \E i \in Tasks, directory \in AsyncDirInputs : AsyncSetDataPathCall(i, directory)
    \/ \E i \in Tasks : AsyncSetDataPathChecked(i)
    \/ \E i \in Tasks : AsyncSetDataPathNormalized(i)

SpecAsync == Init /\ [][NextAsync]_vars

----------------------------------------------------------------------------
(* Asynchronous callers of set and setDataPath: the calls of the tasks interleave *)
(* at their awaits, and no call holds a lock                                      *)

\* the key, the documents and the options of the concurrent set calls
ConcKeyInputs == {KeyA}

ConcJsonInputs == {Some(Doc1), Some(Doc2)}

\* the directories handed to setDataPath while the sets run
ConcDirInputs == {NONE, Some(DirDDot)}

\* the effect of a step of the set call of task i on the calls and the file system
AsyncSetStep(i, call, f) ==
    /\ sets' = [sets EXCEPT ![i] = call]
    /\ fs' = f
    /\ UNCHANGED <<currentDataPath, last, written, nops, tasks, removedDocs>>

AsyncSetCall(i, key, json, dataPath, validate, prettyPrinting) ==
    /\ sets[i].pc = "idle"
    /\ tasks[i].pc = "idle"
    /\ sets[i].calls < MaxSetCalls
    /\ AsyncSetStep(i, setCall(sets[i], key, json, dataPath, validate, prettyPrinting), fs)

AsyncSetFileNamed(i) ==
    /\ sets[i].pc = "basename"
    /\ AsyncSetStep(i, setFileNamed(sets[i], currentDataPath), fs)

AsyncSetDirCreated(i) ==
    /\ sets[i].pc = "createDir"
    /\ LET after == setDirCreated(sets[i], fs) IN AsyncSetStep(i, after.call, after.fs)

AsyncSetWritten(i) ==
    /\ sets[i].pc = "writeFile"
    /\ LET after == setWritten(sets[i], fs) IN AsyncSetStep(i, after.call, after.fs)

NextConc ==
    \/ \E i \in Tasks, directory \in ConcDirInputs : AsyncSetDataPathCall(i, directory)
    \/ \E i \in Tasks : AsyncSetDataPathChecked(i)
    \/ \E i \in Tasks : AsyncSetDataPathNormalized(i)
    \/ \E i \in Tasks, key \in ConcKeyInputs, json \in ConcJsonInputs,
          dataPath \in DataPathOptions, o \in WriteOptions :
            AsyncSetCall(i, key, json, dataPath, o.validate, o.prettyPrinting)
    \/ \E i \in Tasks : AsyncSetFileNamed(i)
    \/ \E i \in Tasks : AsyncSetDirCreated(i)
    \/ \E i \in Tasks : AsyncSetWritten(i)

SpecConc == Init /\ [][NextConc]_vars

----------------------------------------------------------------------------
(* The claims *)

\* the call recorded in last is the one made by this step
Made(op) == nops' = nops + 1 /\ last'.op = op

\* a call with this dataPath option has a data directory to work in without the default
HasDir(dataPath) == Truthy(dataPath) \/ Truthy(currentDataPath)

\* the document get returns for a key in the current state, {} when it fails
Stored(key, dataPath) ==
    LET r == get(fs, currentDataPath, key, dataPath)
    IN  IF r.err = NoError THEN r.val ELSE EmptyObject

\* the names of the entries of the addressed directory that have the .json extension
JsonEntries(f, dataPath) ==
    {n \in Entries(f, IntendedDir(dataPath, currentDataPath)) : extname(n) = DotJson}

Range(q) == {q[i] : i \in DOMAIN q}

\* C1: get(k) for a valid key k returns the value of the most recent completed set of the
\* document of k that no remove(k) or clear() followed: the set overwrites in full, and
\* the value does not depend on prettyPrinting.
C1_GetReturnsLastSet ==
    (/\ last.op = "get"
     /\ ValidKey(last.key)
     /\ DocId(last.key, last.dataPath, currentDataPath) \in DOMAIN written)
    => /\ last.err = NoError
       /\ last.val = written[DocId(last.key, last.dataPath, currentDataPath)]

\* C2: get(k) for a valid key k with no stored document returns {} and does not fail.
C2_GetMissingIsEmptyObject ==
    (/\ last.op = "get"
     /\ ValidKey(last.key)
     /\ DocId(last.key, last.dataPath, currentDataPath) \notin DOMAIN written)
    => /\ last.err = NoError
       /\ last.val = EmptyObject

\* C3: has(k), when it returns, returns false if no document is stored for k and true
\* if a set(k, v) completed and no remove or clear followed.
C3_HasTellsStored ==
    (/\ last.op = "has"
     /\ ValidKey(last.key)
     /\ last.err = NoError)
    => last.val = (DocId(last.key, last.dataPath, currentDataPath) \in DOMAIN written)

\* C4: remove(k), called with a data directory for a valid key whose file does not
\* exist, returns without an error and changes nothing.
C4_RemoveIdempotent ==
    [][(/\ Made("remove")
        /\ ValidKey(last'.key)
        /\ HasDir(last'.dataPath)
        /\ ~Exists(fs, getFileName(last'.key, last'.dataPath, currentDataPath).val))
       => /\ last'.err = NoError
          /\ fs' = fs]_vars

\* C5: after clear() on a directory no .json file is left in it, a keys() that follows
\* returns the empty sequence and a get(k) that follows returns {}.
C5_ClearDeletesDocuments ==
    [][/\ (Made("clear") /\ HasDir(last'.dataPath))
            => JsonEntries(fs', last'.dataPath) = {}
       /\ (last.op = "clear" /\ Made("keys") /\ last'.dataPath = last.dataPath /\ HasDir(last.dataPath))
            => last'.err = NoError /\ last'.val = <<>>
       /\ (last.op = "clear" /\ Made("get") /\ last'.dataPath = last.dataPath /\ HasDir(last.dataPath)
              /\ ValidKey(last'.key))
            => last'.err = NoError /\ last'.val = EmptyObject]_vars

\* C6: keys(), when it returns, returns exactly the names of the entries of the
\* directory that have the .json extension.
C6_KeysAreJsonEntries ==
    (last.op = "keys" /\ last.err = NoError)
    => Range(last.val) = JsonEntries(fs, last.dataPath)

\* C7: getMany(keys), when it returns, returns a mapping with an entry for every key of
\* the list, each the document get returns for that key.
C7_GetManyHasEveryKey ==
    (last.op = "getMany" /\ last.err = NoError)
    => /\ last.val # NONE
       /\ DOMAIN last.val[1] = Range(last.keys)
       /\ \A k \in Range(last.keys) : last.val[1][k] = Stored(k, last.dataPath)

\* C8: getAll(), when it returns, returns a mapping with one entry per key that keys()
\* enumerates, each the document get returns for it; {} for a directory without documents.
C8_GetAllHasEveryKey ==
    (last.op = "getAll" /\ last.err = NoError)
    => /\ last.val # NONE
       /\ DOMAIN last.val[1] = Range(keys(fs, currentDataPath, last.dataPath).val)
       /\ \A k \in DOMAIN last.val[1] : last.val[1][k] = Stored(k, last.dataPath)

\* C9: getDataPath returns the override if one is set and the default data directory
\* otherwise, and a call with a valid key and no per-call dataPath does not fail for the
\* lack of a data directory.
C9_GetDataPathDefaults ==
    /\ last.op = "getDataPath"
        => last.val = (IF Truthy(currentDataPath) THEN currentDataPath ELSE Some(getDefaultDataPath))
    /\ (last.op \in {"get", "set", "has", "remove"} /\ ValidKey(last.key))
        => last.err # ErrNoDataPath

\* C10: a step of a setDataPath call whose directory is not absolute leaves the
\* process-wide override as it was, the call never reaches the assignment, and it ends
\* with the path-not-absolute error, whatever the other calls in flight do.
C10_RelativePathRejected ==
    [][\A i \in Tasks :
          (/\ tasks'[i] # tasks[i]
           /\ tasks'[i].dir # NONE
           /\ ~isAbsolute(tasks'[i].dir[1]))
          => /\ currentDataPath' = currentDataPath
             /\ tasks'[i].pc \in {"isAbsolute", "idle"}
             /\ (tasks'[i].pc = "idle" => tasks'[i].err = ErrNotAbsolute)]_vars

\* C10 witness: a call with the relative directory has ended with the error while an
\* override set before it is still in place and another call is in flight.
C10_Witness ==
    \E i, j \in Tasks :
        /\ i # j
        /\ tasks[i].pc = "idle" /\ tasks[i].dir = Some(DirRel) /\ tasks[i].err = ErrNotAbsolute
        /\ tasks[j].pc = "normalize"
        /\ currentDataPath = Some(DirD)

\* C13: a document that a set stored and a remove then deleted, with no set of it since,
\* is gone: get of its key returns {} and keys() does not list its file name.
C13_RemovedDocumentIsGone ==
    \A id \in removedDocs :
        LET read == get(fs, currentDataPath, id[2], Some(id[1]))
            listed == keys(fs, currentDataPath, Some(id[1]))
        IN  /\ read.err = NoError
            /\ read.val = EmptyObject
            /\ escapedFileName(id[2]) \notin Range(listed.val)

\* the keys a set or a remove must leave alone
FrameKeys == KeyInputs \cup {KeyStar, KeyDash}

\* C15: a set(k, v) or remove(k) that completes in a data directory changes only the
\* document of k: every valid key that differs from k after stripping one trailing ".json" has
\* another file path, and get and has of it give the same result before and after.
C15_SetRemoveChangeOnlyTheirDocument ==
    [][((Made("set") \/ Made("remove")) /\ last'.err = NoError /\ HasDir(last'.dataPath))
       => \A k \in FrameKeys :
            (ValidKey(k) /\ StripJson(k) # StripJson(last'.key))
            => LET getBefore == get(fs, currentDataPath, k, last'.dataPath)
                   getAfter == get(fs', currentDataPath, k, last'.dataPath)
                   hasBefore == has(fs, currentDataPath, k, last'.dataPath)
                   hasAfter == has(fs', currentDataPath, k, last'.dataPath)
               IN  /\ getFileName(k, last'.dataPath, currentDataPath).val
                         # getFileName(last'.key, last'.dataPath, currentDataPath).val
                   /\ getAfter.err = getBefore.err /\ getAfter.val = getBefore.val
                   /\ hasAfter.err = hasBefore.err /\ hasAfter.val = hasBefore.val]_vars

\* the file a set call with its own dataPath is to write
OwnFile(call) == Append(normalize(call.dataPath[1]), escapedFileName(call.key))

\* C11: every step of a set call with a per-call dataPath D, whatever the process-wide
\* override is and whatever setDataPath and set calls run beside it, names the file of
\* its key in D, creates nothing but D, its ancestors and that file, changes nothing
\* else, and its write leaves the file holding the value of the call; and after every
\* step the operations that take a key address the file of the key in D, and keys lists D.
C11_PerCallDataPathWins ==
    [][/\ getFileName(KeyA, Some(DirSub), currentDataPath')
            = Ok(Append(DirSub, escapedFileName(KeyA)))
       /\ LET listed == keys(fs', currentDataPath', Some(DirSub))
          IN  listed.err = NoError /\ Range(listed.val) = Entries(listed.fs, DirSub)
       /\ \A i \in Tasks :
          (sets'[i] # sets[i] /\ Truthy(sets'[i].dataPath))
          => LET call == sets'[i]
                 D == normalize(call.dataPath[1])
             IN  /\ DOMAIN fs \subseteq DOMAIN fs'
                 /\ \A p \in DOMAIN fs' :
                       (p \notin DOMAIN fs \/ fs'[p] # fs[p])
                       => \/ p = OwnFile(call) /\ IsFile(fs', p)
                          \/ p \in Prefixes(D) /\ IsDir(fs', p) /\ p \notin DOMAIN fs
                 /\ call.fileName # NONE => call.fileName[1] = OwnFile(call)
                 /\ call.err = NoError
                 /\ (sets[i].pc = "writeFile")
                       => /\ IsFile(fs', OwnFile(call))
                          /\ JSONparse(fs'[OwnFile(call)].data) = Ok(call.json[1])]_vars

\* C11 witness: a set with its own dataPath has written its file under that directory
\* while the process-wide directory holds another document of the same key and a
\* setDataPath call is in flight.
C11_Witness ==
    \E i, j \in Tasks :
        /\ sets[i].pc = "idle" /\ sets[i].calls > 0 /\ sets[i].err = NoError
        /\ sets[i].dataPath = Some(DirSub)
        /\ IsFile(fs, Append(DirSub, escapedFileName(KeyA)))
        /\ IsFile(fs, Append(DirD, escapedFileName(KeyA)))
        /\ fs[Append(DirSub, escapedFileName(KeyA))] # fs[Append(DirD, escapedFileName(KeyA))]
        /\ tasks[j].pc # "idle"

\* C16: with set calls running concurrently and no lock, a file changes only by the write
\* of one call and then holds, in full, the value of that call; and a set call that got
\* its file name and its text completes without an error.
C16_LastWriteWins ==
    [][/\ \A p \in DOMAIN fs :
            (p \notin DOMAIN fs' \/ fs'[p] # fs[p])
            => \E i \in Tasks :
                 /\ sets[i].pc = "writeFile" /\ sets'[i].pc = "idle"
                 /\ sets[i].fileName = Some(p)
                 /\ p \in DOMAIN fs'
                 /\ JSONparse(fs'[p].data) = Ok(sets[i].json[1])
       /\ \A i \in Tasks :
            (sets[i].pc \in {"createDir", "writeFile"} /\ sets'[i] # sets[i])
            => /\ sets'[i].err = NoError
               /\ sets[i].pc = "writeFile"
                    => /\ IsFile(fs', sets[i].fileName[1])
                       /\ JSONparse(fs'[sets[i].fileName[1]].data) = Ok(sets[i].json[1])]_vars

\* C16 witness: the file holds the value of a set call that completed while another
\* set call with another value is suspended at the write of the same file.
C16_Witness ==
    \E i, j \in Tasks :
        /\ sets[i].pc = "idle" /\ sets[i].calls > 0 /\ sets[i].err = NoError
        /\ sets[j].pc = "writeFile"
        /\ sets[j].fileName = sets[i].fileName
        /\ sets[j].json # sets[i].json
        /\ JSONparse(fs[sets[i].fileName[1]].data) = Ok(sets[i].json[1])

\* C18: a set call with the validate option returns without an error only from the
\* read-back that follows its write, and the read-back has seen the value of the call.
C18_ValidatedSetReadsBack ==
    [][\A i \in Tasks :
          (/\ sets[i].pc # "idle"
           /\ sets'[i].pc = "idle"
           /\ sets'[i].err = NoError
           /\ sets[i].validate)
          => /\ sets[i].pc = "validate"
             /\ JSONparse(fs[sets[i].fileName[1]].data) = Ok(sets[i].json[1])]_vars

\* the call made by this step follows a set that completed, with the same dataPath
\* option, for a key that names the same document
FollowsSetOfSameDocument ==
    /\ last.op = "set" /\ last.err = NoError
    /\ last'.dataPath = last.dataPath
    /\ ValidKey(last'.key)
    /\ StripJson(last'.key) = StripJson(last.key)

\* C12: the file name of a valid key is the key with one trailing ".json" stripped and
\* ".json" appended once, so a key and the key with ".json" have one file name and the
\* key "a.d" has the file name "a.d.json"; and a get, has or remove that follows a set
\* made through the other name of the document reads, finds or deletes what the set wrote.
C12_KeyNormalization ==
    [][/\ \A k \in EdgeKeyInputs :
            ValidKey(k)
            => /\ escapedFileName(k) = StripJson(k) \o DotJson
               /\ escapedFileName(StripJson(k) \o DotJson) = escapedFileName(StripJson(k))
       /\ escapedFileName(KeyAD) = <<"a", ".", "d", ".", "j", "s", "o", "n">>
       /\ (Made("get") /\ FollowsSetOfSameDocument)
            => last'.err = NoError /\ last'.val = last.json[1]
       /\ (Made("has") /\ FollowsSetOfSameDocument)
            => last'.err = NoError /\ last'.val = TRUE
       /\ (Made("remove") /\ FollowsSetOfSameDocument)
            => /\ last'.err = NoError
               /\ ~Exists(fs', getFileName(last.key, last.dataPath, currentDataPath).val)]_vars

\* C12 witness: a get of "a.json" has returned the document while the directory holds
\* the file a.json and no file a.json.json.
C12_Witness ==
    /\ last.op = "get" /\ last.key = KeyAJson /\ last.dataPath = Some(DirSub)
    /\ last.err = NoError /\ last.val = Doc1
    /\ IsFile(fs, FileA)
    /\ ~Exists(fs, Append(DirSub, KeyAJson \o DotJson))

\* the read that the get or has recorded in last performed
LastRead ==
    readFile(fs, getFileName(last.key, last.dataPath, currentDataPath).val, 0)

\* C14: a get or has that fails with the permission error has made at most 10 read
\* attempts in total and has slept one second between two attempts; one that fails with
\* another error of the read has made one attempt.
C14_ReadAttemptsBounded ==
    (/\ last.op \in {"get", "has"}
     /\ last.err \notin {NoError, ErrMissingKey, ErrInvalidKey, ErrNoDataPath, ErrSyntax})
    => /\ last.err = LastRead.err
       /\ last.err = "EPERM"
            => LastRead.reads <= 10 /\ LastRead.slept = SleepTime * (LastRead.reads - 1)
       /\ last.err # "EPERM"
            => LastRead.reads = 1 /\ LastRead.slept = 0

\* a call with a per-call dataPath that is not an absolute path
RelativeDataPath(call) == Truthy(call.dataPath) /\ ~isAbsolute(call.dataPath[1])

\* C17: a get, set, has, remove, keys or clear called with a relative dataPath fails and
\* leaves the file system as it was.
C17_RelativeDataPathRejected ==
    [][(/\ nops' = nops + 1
        /\ last'.op \in {"get", "set", "has", "remove", "keys", "clear"}
        /\ RelativeDataPath(last'))
       => /\ last'.err # NoError
          /\ fs' = fs]_vars

\* C19: a get, set, has or remove called with a key that is empty, blank or not a string
\* fails with the error of the key, a set of undefined called with a valid key fails with
\* the serialization error, and both leave the file system as it was.
C19_ValidationBeforeEffects ==
    [][/\ (nops' = nops + 1 /\ last'.op \in {"get", "set", "has", "remove"} /\ ~ValidKey(last'.key))
            => /\ last'.err \in {ErrMissingKey, ErrInvalidKey}
               /\ fs' = fs
       /\ (Made("set") /\ ValidKey(last'.key) /\ ~Truthy(JSONstringify(last'.json, 0)))
            => /\ last'.err = ErrInvalidJson
               /\ fs' = fs]_vars

\* the file of the key of a call exists and its text is not JSON
OnCorruptFile(call) ==
    LET fileName == getFileName(call.key, call.dataPath, currentDataPath)
    IN  /\ fileName.err = NoError
        /\ IsFile(fs, fileName.val) /\ ~IsDenied(fs, fileName.val)
        /\ JSONparse(fs[fileName.val].data).err # NoError

\* C20: a get of a key whose file is not JSON fails with the parse error, returns nothing
\* and leaves the file system as it was; a has of the key returns true.
C20_CorruptDataPropagates ==
    [][/\ (Made("get") /\ OnCorruptFile(last'))
            => /\ last'.err = ErrSyntax
               /\ last'.val = NONE
               /\ fs' = fs
       /\ (Made("has") /\ OnCorruptFile(last'))
            => /\ last'.err = NoError
               /\ last'.val = TRUE
               /\ fs' = fs]_vars

\* C20 witness: a get of key "a" has failed with the parse error and the file of "a"
\* still holds the text that is not JSON.
C20_Witness ==
    /\ last.op = "get" /\ last.key = KeyA /\ last.dataPath = Some(DirSub)
    /\ last.err = ErrSyntax
    /\ IsFile(fs, FileA) /\ fs[FileA].data = CorruptText

====
